---- MODULE Spec2Model ----
(***************************************************************************)
(* Playback synchronisation and scheduling engine of MusicMasher:          *)
(* AudioTrack and Timeline (models), AudioService (sounding-source         *)
(* registry, playTracks/stopAll/stopTrack) and TimelineService (transport, *)
(* the 50 ms interval callback, mute/solo toggles, seek).                  *)
(*                                                                         *)
(* Time is counted in milliseconds (Date.now() is an integer number of     *)
(* ms; the code's seconds are ms / 1000).  The wall clock and the audio    *)
(* context's clock are taken to run at the same rate, so one variable,     *)
(* now, stands for both.                                                   *)
(***************************************************************************)
EXTENDS Integers, Sequences, FiniteSets, TLC

\* ---------------------------------------------------------------- bounds
Ids == {1, 2}           \* ids of the tracks imported in one run
MaxSources == 2         \* backend sources that exist at once (live or awaiting 'ended')
MaxNow == 100           \* the clock stops advancing here (ms)
ClockSteps == {50}      \* the clock advances by one of these (ms)
Durations == {100}      \* decoded clip lengths (ms)
StartTimes == {0}       \* drag targets of updateTrackPosition (ms)
SeekTimes == {50}       \* seek targets (ms)
PassStarts == {0, 50}       \* startTime of the tracks handed to playTracks (ms)
PassDurations == {50, 100}  \* their clip lengths (ms)
PassPositions == {0, 50, 100}   \* positions handed to playTracks (ms)
EditDurations == {40000}        \* clip lengths while editing (ms)
EditStarts == {-1000, 0, 70000} \* drag targets while editing (ms)
EditSeeks == {-1000, 30000, 70000, 200000}  \* seek targets while editing (ms)
EditVolumes == {-50, 50, 150}   \* volume arguments (hundredths)
EditZooms == {-5, 1, 100, 500}  \* zoom arguments
ProbeTimes == {0, 39999, 40000, 70000, 109999, 110000}  \* getActiveTracks arguments

\* ------------------------------------------------------ program constants
TickMs == 50            \* interval(50)
PlayTrackDelayMs == 10  \* playTrack schedules its source 0.01 s ahead
LookAheadMs == 50       \* audioContext.currentTime + 0.05
MinDuration == 60000    \* Math.max(maxEndTime, 60)
ZoomMin == 10           \* Math.max(10, ...)
ZoomMax == 200          \* Math.min(200, zoom)
ZoomDefault == 50       \* this.zoom = 50
VolumeMax == 100        \* volume 1.0, counted in hundredths

VARIABLES
    tracks,             \* Timeline.tracks: sequence of AudioTrack records
    currentTime,        \* Timeline.currentTime (ms)
    duration,           \* Timeline.duration (ms)
    zoom,               \* Timeline.zoom (pixels per second)
    isPlaying,          \* Timeline.isPlaying
    activeSources,      \* AudioService.activeSources: track id -> source
    sources,            \* backend: the AudioBufferSourceNodes that were started, not
                        \* stopped, and whose 'ended' event was not dispatched yet
    endedPending,       \* events in flight: per track, the stopped sources whose
                        \* 'ended' event is still to be dispatched
    playbackStartTime,  \* TimelineService.playbackStartTime (ms)
    subscribed,         \* playbackSubscription is live (not unsubscribed)
    timers,             \* interval(50) subscriptions that are live
    tickSolo,           \* hasSoloTracks as captured by the interval callback
    tickDue,            \* when the interval callback fires next
    now,                \* the clock (ms)
    nextId,             \* tracks created so far + 1
    userLeft,           \* the user makes no further operation
    importRejected,     \* the last addTrack promise was rejected to its caller
    published,          \* what timelineSubject emitted last
    inFlight            \* ids of the tracks whose addTrack awaits its decode

vars == <<tracks, currentTime, duration, zoom, isPlaying, activeSources, sources,
          endedPending, playbackStartTime, subscribed, timers, tickSolo, tickDue, now,
          nextId,
          userLeft, importRejected, published, inFlight>>

Max(a, b) == IF a >= b THEN a ELSE b
Min(a, b) == IF a <= b THEN a ELSE b
MaxOf(S) == CHOOSE x \in S : \A y \in S : y <= x

\* ------------------------------------------------------------ AudioTrack
NewTrack(id) ==
    [id |-> id, audioBuffer |-> FALSE, startTime |-> 0, duration |-> 0,
     volume |-> VolumeMax, isMuted |-> FALSE, isSolo |-> FALSE]

setAudioBuffer(tr, d) == [tr EXCEPT !.audioBuffer = TRUE, !.duration = d]
setStartTime(tr, t) == [tr EXCEPT !.startTime = Max(0, t)]
setVolume(tr, v) == [tr EXCEPT !.volume = Max(0, Min(VolumeMax, v))]
toggleMute(tr) == [tr EXCEPT !.isMuted = ~tr.isMuted]
toggleSolo(tr) == [tr EXCEPT !.isSolo = ~tr.isSolo]
getEndTime(tr) == tr.startTime + tr.duration

\* -------------------------------------------------------------- Timeline
TrackIds(ts) == {ts[i].id : i \in DOMAIN ts}
getTrack(ts, id) == ts[CHOOSE i \in DOMAIN ts : ts[i].id = id]
hasAnySoloTracks(ts) == \E i \in DOMAIN ts : ts[i].isSolo
\* Variant that differs from the code: the floor applies to the empty timeline too.
updateDuration_FloorAlways(ts) ==
    IF Len(ts) = 0 THEN MinDuration
    ELSE Max(MaxOf({getEndTime(ts[i]) : i \in DOMAIN ts}), MinDuration)

updateDuration(ts) ==
    IF Len(ts) = 0 THEN 0
    ELSE Max(MaxOf({getEndTime(ts[i]) : i \in DOMAIN ts}), MinDuration)
setCurrentTime(t, dur) == Max(0, Min(t, dur))
\* Variant that differs from the code: the zoom is stored as given.
setZoom_NoClamp(z) == z

setZoom(z) == Max(ZoomMin, Min(ZoomMax, z))
\* Variant that differs from the code: a track is still active at its end instant.
getActiveTracks_Closed(ts, t) ==
    SelectSeq(ts, LAMBDA tr : t >= tr.startTime /\ t <= getEndTime(tr))

getActiveTracks(ts, t) ==
    SelectSeq(ts, LAMBDA tr : t >= tr.startTime /\ t < getEndTime(tr))

\* The service's state as one record, so that operations compose
\* (seek = pause; setCurrentTime; play).
Cur ==
    [tracks |-> tracks, currentTime |-> currentTime, duration |-> duration,
     zoom |-> zoom, isPlaying |-> isPlaying, activeSources |-> activeSources, sources |-> sources,
     endedPending |-> endedPending,
     playbackStartTime |-> playbackStartTime, subscribed |-> subscribed,
     timers |-> timers,
     tickSolo |-> tickSolo, tickDue |-> tickDue, published |-> published]

Set(s) ==
    /\ tracks' = s.tracks
    /\ currentTime' = s.currentTime
    /\ duration' = s.duration
    /\ zoom' = s.zoom
    /\ isPlaying' = s.isPlaying
    /\ activeSources' = s.activeSources
    /\ sources' = s.sources
    /\ endedPending' = s.endedPending
    /\ playbackStartTime' = s.playbackStartTime
    /\ subscribed' = s.subscribed
    /\ timers' = s.timers
    /\ tickSolo' = s.tickSolo
    /\ tickDue' = s.tickDue
    /\ published' = s.published

\* ---------------------------------------------------------- AudioService
\* Variants of the filter that differ from the code: solo wins over mute; a track
\* is not yet active at its start instant; a registered track is started again.
shouldStart_SoloOverridesMute(tr, reg, t, hasSoloTracks) ==
    /\ tr.id \notin DOMAIN reg
    /\ tr.audioBuffer
    /\ IF hasSoloTracks THEN tr.isSolo ELSE ~tr.isMuted
    /\ t >= tr.startTime /\ t < getEndTime(tr)

shouldStart_StrictStart(tr, reg, t, hasSoloTracks) ==
    /\ tr.id \notin DOMAIN reg
    /\ tr.audioBuffer
    /\ ~tr.isMuted
    /\ ~(hasSoloTracks /\ ~tr.isSolo)
    /\ t > tr.startTime /\ t < getEndTime(tr)

shouldStart_NoMembership(tr, reg, t, hasSoloTracks) ==
    /\ tr.audioBuffer
    /\ ~tr.isMuted
    /\ ~(hasSoloTracks /\ ~tr.isSolo)
    /\ t >= tr.startTime /\ t < getEndTime(tr)

\* The filter of playTracks: the tracks that get a new source.
shouldStart(tr, reg, t, hasSoloTracks) ==
    /\ tr.id \notin DOMAIN reg
    /\ tr.audioBuffer
    /\ ~tr.isMuted
    /\ ~(hasSoloTracks /\ ~tr.isSolo)
    /\ t >= tr.startTime /\ t < getEndTime(tr)

\* Variant that differs from the code: every source starts at the head of its buffer.
bufferOffset_FromHead(tr, t) == 0

bufferOffset(tr, t) == Max(0, t - tr.startTime)

\* The k smallest source handles that are free.
RECURSIVE FreeIds(_, _)
FreeIds(used, k) ==
    IF k = 0 THEN <<>>
    ELSE LET x == CHOOSE y \in 1..(Cardinality(used) + 1) : y \notin used
         IN <<x>> \o FreeIds(used \cup {x}, k - 1)

\* Variants of playTracks that differ from the code: the started sources are not
\* put in the registry; the k-th source of a pass is scheduled k - 1 ms after the
\* first.
playTracks_NoRegister(s, t, hasSoloTracks, clk) ==
    LET toStart ==
            SelectSeq(s.tracks,
                      LAMBDA tr : shouldStart(tr, s.activeSources, t, hasSoloTracks))
        n == Len(toStart)
        ids == FreeIds(DOMAIN s.sources, n)
        idx(x) == CHOOSE k \in 1..n : ids[k] = x
        newIds == {ids[k] : k \in 1..n}
    IN [s EXCEPT
          !.sources = [x \in DOMAIN s.sources \cup newIds |->
              IF x \in newIds
              THEN [track |-> toStart[idx(x)].id,
                    startAt |-> clk + LookAheadMs,
                    bufferOffset |-> bufferOffset(toStart[idx(x)], t),
                    gain |-> toStart[idx(x)].volume,
                    endAt |-> clk + LookAheadMs + toStart[idx(x)].duration
                                - bufferOffset(toStart[idx(x)], t)]
              ELSE s.sources[x]]]

playTracks_Staggered(s, t, hasSoloTracks, clk) ==
    LET toStart ==
            SelectSeq(s.tracks,
                      LAMBDA tr : shouldStart(tr, s.activeSources, t, hasSoloTracks))
        n == Len(toStart)
        ids == FreeIds(DOMAIN s.sources, n)
        idx(x) == CHOOSE k \in 1..n : ids[k] = x
        tidx(id) == CHOOSE k \in 1..n : toStart[k].id = id
        newIds == {ids[k] : k \in 1..n}
        newTracks == {toStart[k].id : k \in 1..n}
    IN [s EXCEPT
          !.sources = [x \in DOMAIN s.sources \cup newIds |->
              IF x \in newIds
              THEN [track |-> toStart[idx(x)].id,
                    startAt |-> clk + LookAheadMs + idx(x) - 1,
                    bufferOffset |-> bufferOffset(toStart[idx(x)], t),
                    gain |-> toStart[idx(x)].volume,
                    endAt |-> clk + LookAheadMs + idx(x) - 1 + toStart[idx(x)].duration
                                - bufferOffset(toStart[idx(x)], t)]
              ELSE s.sources[x]],
          !.activeSources = [id \in DOMAIN s.activeSources \cup newTracks |->
              IF id \in newTracks THEN ids[tidx(id)] ELSE s.activeSources[id]]]

playTracks(s, t, hasSoloTracks, clk) ==
    LET tracksToStart ==
            SelectSeq(s.tracks,
                      LAMBDA tr : shouldStart(tr, s.activeSources, t, hasSoloTracks))
        sourcesToStart ==
            SelectSeq(tracksToStart, LAMBDA tr : bufferOffset(tr, t) < tr.duration)
        n == Len(sourcesToStart)
        ids == FreeIds(DOMAIN s.sources, n)
        syncStartTime == clk + LookAheadMs
        node(k) ==
            [track |-> sourcesToStart[k].id,
             startAt |-> syncStartTime,
             bufferOffset |-> bufferOffset(sourcesToStart[k], t),
             gain |-> sourcesToStart[k].volume,
             endAt |-> syncStartTime + sourcesToStart[k].duration
                         - bufferOffset(sourcesToStart[k], t)]
        idx(x) == CHOOSE k \in 1..n : ids[k] = x
        tidx(id) == CHOOSE k \in 1..n : sourcesToStart[k].id = id
        newIds == {ids[k] : k \in 1..n}
        newTracks == {sourcesToStart[k].id : k \in 1..n}
    IN [s EXCEPT
          !.sources = [x \in DOMAIN s.sources \cup newIds |->
                          IF x \in newIds THEN node(idx(x)) ELSE s.sources[x]],
          !.activeSources = [id \in DOMAIN s.activeSources \cup newTracks |->
                          IF id \in newTracks THEN ids[tidx(id)]
                          ELSE s.activeSources[id]]]

updatePlayback(s, t, hasSoloTracks, clk) == playTracks(s, t, hasSoloTracks, clk)

\* The source playTrack starts for the track tr: scheduled at contextStartTime
\* when the caller gives one (ctx = {that time}), else 0.01 s ahead (ctx = {}).
\* It is put in the registry over whatever entry the track had, and gets no
\* 'ended' listener.
playTrackStart(s, tr, timelineTime, ctx, clk) ==
    LET x == FreeIds(DOMAIN s.sources, 1)[1]
        startTime == IF ctx = {} THEN clk + PlayTrackDelayMs ELSE CHOOSE t \in ctx : TRUE
        node == [track |-> tr.id,
                 startAt |-> startTime,
                 bufferOffset |-> bufferOffset(tr, timelineTime),
                 gain |-> tr.volume,
                 endAt |-> startTime + tr.duration - bufferOffset(tr, timelineTime)]
    IN [s EXCEPT
          !.sources = [y \in DOMAIN s.sources \cup {x} |->
                          IF y = x THEN node ELSE s.sources[y]],
          !.activeSources = [id \in DOMAIN s.activeSources \cup {tr.id} |->
                          IF id = tr.id THEN x ELSE s.activeSources[id]]]

\* Variant that differs from the code: playTrack tests neither the buffer nor the
\* range of the track.
playTrack_Unguarded(s, tr, timelineTime, ctx, clk) ==
    IF tr.isMuted THEN s ELSE playTrackStart(s, tr, timelineTime, ctx, clk)

playTrack(s, tr, timelineTime, ctx, clk) ==
    IF ~tr.audioBuffer \/ tr.isMuted THEN s
    ELSE IF timelineTime < tr.startTime \/ timelineTime >= getEndTime(tr) THEN s
    ELSE IF bufferOffset(tr, timelineTime) < tr.duration
         THEN playTrackStart(s, tr, timelineTime, ctx, clk)
         ELSE s

\* playTracks when source.start raises for the track bad.  The start loop has no
\* try block: the sources before it in the loop are started and registered, the
\* exception leaves forEach and playTracks, and the sources after it are never
\* started.  thrown: the exception reaches the caller.
playTracksRejecting(s, t, hasSoloTracks, clk, bad) ==
    LET attempted ==
            \E i \in DOMAIN s.tracks :
                /\ s.tracks[i].id = bad
                /\ shouldStart(s.tracks[i], s.activeSources, t, hasSoloTracks)
                /\ bufferOffset(s.tracks[i], t) < s.tracks[i].duration
        before == SelectSeq(s.tracks, LAMBDA tr :
                      \E i, j \in DOMAIN s.tracks :
                          s.tracks[i] = tr /\ s.tracks[j].id = bad /\ i < j)
        cut == playTracks([s EXCEPT !.tracks = before], t, hasSoloTracks, clk)
    IN IF attempted
       THEN [service |-> [cut EXCEPT !.tracks = s.tracks], thrown |-> TRUE]
       ELSE [service |-> playTracks(s, t, hasSoloTracks, clk), thrown |-> FALSE]

\* source.stop() on a set of nodes: they go silent at once and the backend queues
\* an 'ended' event for each, whose listener reads nothing but the track id.
stopNodes(s, xs) ==
    [s EXCEPT
       !.sources = [x \in DOMAIN s.sources \ xs |-> s.sources[x]],
       !.endedPending = [id \in DOMAIN s.endedPending |->
           s.endedPending[id]
             + Cardinality({x \in xs \cap DOMAIN s.sources : s.sources[x].track = id})]]

\* source.stop() on every registered source, then activeSources.clear().
stopAll(s) ==
    LET s1 == stopNodes(s, {s.activeSources[id] : id \in DOMAIN s.activeSources})
    IN [s1 EXCEPT !.activeSources = << >>]

stopTrack(s, id) ==
    IF id \in DOMAIN s.activeSources
    THEN LET s1 == stopNodes(s, {s.activeSources[id]})
         IN [s1 EXCEPT !.activeSources =
                [i \in DOMAIN s.activeSources \ {id} |-> s.activeSources[i]]]
    ELSE s

\* stopAll and stopTrack with a backend whose source.stop() raises for the
\* handles in raising (sources that have already ended): such a source is left
\* as it is and queues no further event, the catch block logs, and the registry
\* is cleared all the same.  thrown: the exception reaches the caller.
\* Variant that differs from the code: no try block around source.stop(), the
\* first exception leaves stopAll before activeSources.clear().
stopAllRaising_NoCatch(s, raising) ==
    IF \E id \in DOMAIN s.activeSources : s.activeSources[id] \in raising
    THEN [service |-> s, thrown |-> TRUE]
    ELSE [service |-> stopAll(s), thrown |-> FALSE]

stopAllRaising(s, raising) ==
    LET s1 == stopNodes(s, {s.activeSources[id] : id \in DOMAIN s.activeSources} \ raising)
    IN [service |-> [s1 EXCEPT !.activeSources = << >>], thrown |-> FALSE]

stopTrackRaising(s, id, raising) ==
    IF id \in DOMAIN s.activeSources
    THEN LET s1 == stopNodes(s, {s.activeSources[id]} \ raising)
         IN [service |-> [s1 EXCEPT !.activeSources =
                            [i \in DOMAIN s.activeSources \ {id} |-> s.activeSources[i]]],
             thrown |-> FALSE]
    ELSE [service |-> s, thrown |-> FALSE]

\* ------------------------------------------------------- TimelineService
\* What a subscriber of getTimeline() sees of the timeline when it is emitted.
Snapshot(s) ==
    [tracks |-> s.tracks, currentTime |-> s.currentTime, duration |-> s.duration,
     zoom |-> s.zoom, isPlaying |-> s.isPlaying]

\* timelineSubject.next(this.timeline).
notifyUpdate(s) == [s EXCEPT !.published = Snapshot(s)]

\* playbackStartTime is read by the interval callback alone and play() sets it
\* before subscribing, so once unsubscribed its value is immaterial: 0 here.
unsubscribe(s) ==
    [s EXCEPT !.subscribed = FALSE,
              !.timers = IF s.subscribed THEN s.timers - 1 ELSE s.timers,
              !.tickSolo = FALSE, !.tickDue = 0,
              !.playbackStartTime = 0]

\* timeline.play() and the anchor of the clock, before play() calls playTracks.
playAnchor(s, clk) ==
    [s EXCEPT !.isPlaying = TRUE, !.playbackStartTime = clk - s.currentTime]

\* Variant that differs from the code: play() does not return early when the
\* timeline is playing already.
play_Unguarded(s, clk) ==
    LET s1 == playAnchor(s, clk)
        hasSoloTracks == hasAnySoloTracks(s1.tracks)
        s2 == playTracks(s1, s1.currentTime, hasSoloTracks, clk)
    IN notifyUpdate([s2 EXCEPT !.subscribed = TRUE, !.timers = s2.timers + 1,
                               !.tickSolo = hasSoloTracks, !.tickDue = clk + TickMs])

play(s, clk) ==
    IF s.isPlaying THEN s
    ELSE LET s1 == playAnchor(s, clk)
             hasSoloTracks == hasAnySoloTracks(s1.tracks)
             s2 == playTracks(s1, s1.currentTime, hasSoloTracks, clk)
         IN notifyUpdate([s2 EXCEPT !.subscribed = TRUE, !.timers = s2.timers + 1,
                                    !.tickSolo = hasSoloTracks,
                                    !.tickDue = clk + TickMs])

\* play() when source.start raises for the track bad: the exception leaves
\* play() after timeline.play() and the anchor, before interval(50).subscribe.
playRejecting(s, clk, bad) ==
    IF s.isPlaying THEN [service |-> s, thrown |-> FALSE]
    ELSE LET s1 == playAnchor(s, clk)
             r == playTracksRejecting(s1, s1.currentTime, hasAnySoloTracks(s1.tracks),
                                      clk, bad)
         IN IF r.thrown THEN r
            ELSE [service |-> play(s, clk), thrown |-> FALSE]

\* Variant that differs from the code: pause() leaves the sources sounding.
pause_KeepSources(s) ==
    IF ~s.isPlaying THEN s
    ELSE notifyUpdate(unsubscribe([s EXCEPT !.isPlaying = FALSE]))

pause(s) ==
    IF ~s.isPlaying THEN s
    ELSE notifyUpdate(unsubscribe(stopAll([s EXCEPT !.isPlaying = FALSE])))

\* Variant that differs from the code: stop() leaves the interval subscribed.
stop_KeepTicking(s) ==
    notifyUpdate(stopAll([s EXCEPT !.isPlaying = FALSE, !.currentTime = 0]))

stop(s) ==
    notifyUpdate(unsubscribe(stopAll([s EXCEPT !.isPlaying = FALSE, !.currentTime = 0])))

\* seek up to timeline.setCurrentTime(time), before it resumes.
seekMove(s, time) ==
    LET s1 == IF s.isPlaying THEN pause(s) ELSE s
    IN [s1 EXCEPT !.currentTime = setCurrentTime(time, s1.duration)]

seek(s, time, clk) ==
    LET wasPlaying == s.isPlaying
        s2 == seekMove(s, time)
    IN IF wasPlaying THEN play(s2, clk) ELSE notifyUpdate(s2)

\* The interval(50) callback: the position it computes, before updatePlayback.
tickClock(s, clk) ==
    LET elapsed == clk - s.playbackStartTime
    IN [s EXCEPT !.currentTime = setCurrentTime(elapsed, s.duration),
                 !.tickDue = s.tickDue + TickMs]

\* The interval(50) callback.
tick(s, clk) ==
    LET s1 == tickClock(s, clk)
        s2 == updatePlayback(s1, s1.currentTime, s.tickSolo, clk)
    IN notifyUpdate(IF s2.currentTime >= s2.duration THEN stop(s2) ELSE s2)

\* The interval(50) callback when source.start raises for the track bad: the
\* exception leaves the callback before the end-of-timeline test.  The observer
\* either stays subscribed (the error is reported asynchronously) or is
\* unsubscribed, as the RxJS in use does: keeps.
tickRejecting(s, clk, bad, keeps) ==
    LET s1 == tickClock(s, clk)
        r == playTracksRejecting(s1, s1.currentTime, s.tickSolo, clk, bad)
    IN IF r.thrown
       THEN [service |-> IF keeps THEN r.service ELSE unsubscribe(r.service),
             thrown |-> TRUE]
       ELSE [service |-> tick(s, clk), thrown |-> FALSE]

\* The tracks after a mutator ran on the track getTrack(id) returned: tr is its result.
putTrack(ts, id, tr) == [i \in DOMAIN ts |-> IF ts[i].id = id THEN tr ELSE ts[i]]

\* track.toggleMute() and, while playing, stopTrack: before updatePlayback.
muteFlip(s, id) ==
    LET s1 == [s EXCEPT !.tracks = putTrack(s.tracks, id, toggleMute(getTrack(s.tracks, id)))]
    IN IF s1.isPlaying THEN stopTrack(s1, id) ELSE s1

\* Variant that differs from the code: the mute toggle restarts playback, as the
\* solo toggle does.
toggleTrackMute_Restart(s, id, clk) ==
    LET s1 == [s EXCEPT !.tracks = putTrack(s.tracks, id, toggleMute(getTrack(s.tracks, id)))]
    IN notifyUpdate(IF s1.isPlaying THEN play(pause(s1), clk) ELSE s1)

\* Variant that differs from the code: the toggle flips the flag and leaves the
\* sources to the next tick.
toggleTrackMute_Deferred(s, id, clk) ==
    notifyUpdate([s EXCEPT !.tracks =
        putTrack(s.tracks, id, toggleMute(getTrack(s.tracks, id)))])

toggleTrackMute(s, id, clk) ==
    LET s1 == muteFlip(s, id)
    IN notifyUpdate(IF s1.isPlaying
                    THEN updatePlayback(s1, s1.currentTime,
                                        hasAnySoloTracks(s1.tracks), clk)
                    ELSE s1)

soloFlip(s, id) == [s EXCEPT !.tracks = putTrack(s.tracks, id, toggleSolo(getTrack(s.tracks, id)))]

\* Variant that differs from the code: the solo toggle restarts playback whether
\* or not the transport was playing.
toggleTrackSolo_AlwaysRestart(s, id, clk) ==
    notifyUpdate(play(pause(soloFlip(s, id)), clk))

toggleTrackSolo(s, id, clk) ==
    LET s1 == soloFlip(s, id)
    IN notifyUpdate(IF s1.isPlaying THEN play(pause(s1), clk) ELSE s1)

removeTrack(s, id) ==
    LET s1 == stopTrack(s, id)
        ts == SelectSeq(s1.tracks, LAMBDA tr : tr.id # id)
    IN notifyUpdate([s1 EXCEPT !.tracks = ts, !.duration = updateDuration(ts)])

\* Variant that differs from the code: the drag leaves the duration as it was.
updateTrackPosition_KeepDuration(s, id, startTime) ==
    notifyUpdate([s EXCEPT !.tracks =
        putTrack(s.tracks, id, setStartTime(getTrack(s.tracks, id), startTime))])

\* Variant that differs from the code: the drag is not published.
updateTrackPosition_Silent(s, id, startTime) ==
    LET ts == putTrack(s.tracks, id, setStartTime(getTrack(s.tracks, id), startTime))
    IN [s EXCEPT !.tracks = ts, !.duration = updateDuration(ts)]

updateTrackPosition(s, id, startTime) ==
    LET ts == putTrack(s.tracks, id, setStartTime(getTrack(s.tracks, id), startTime))
    IN notifyUpdate([s EXCEPT !.tracks = ts, !.duration = updateDuration(ts)])

\* Variant that differs from the code: a volume change during playback stops the
\* track's source, for the next tick to start it again with the new gain.
updateTrackVolume_StopsTrack(s, id, volume) ==
    LET s1 == [s EXCEPT !.tracks =
                  putTrack(s.tracks, id, setVolume(getTrack(s.tracks, id), volume))]
    IN notifyUpdate(IF s1.isPlaying THEN stopTrack(s1, id) ELSE s1)

updateTrackVolume(s, id, volume) ==
    notifyUpdate([s EXCEPT !.tracks =
        putTrack(s.tracks, id, setVolume(getTrack(s.tracks, id), volume))])

\* TimelineService.setZoom.
setZoomLevel(s, z) == notifyUpdate([s EXCEPT !.zoom = setZoom(z)])

\* Variants of addTrack that differ from the code: the track is inserted in the
\* order of the calls (of the ids) rather than appended; the track is placed
\* after the track that ends last rather than after the last of the list.
addTrack_CallOrder(s, id, d) ==
    LET t0 == setAudioBuffer(NewTrack(id), d)
        t1 == IF Len(s.tracks) > 0
              THEN setStartTime(t0, getEndTime(s.tracks[Len(s.tracks)]))
              ELSE t0
        ts == SelectSeq(s.tracks, LAMBDA tr : tr.id < id) \o <<t1>>
                \o SelectSeq(s.tracks, LAMBDA tr : tr.id > id)
    IN notifyUpdate([s EXCEPT !.tracks = ts, !.duration = updateDuration(ts)])

addTrack_AfterLatestEnd(s, id, d) ==
    LET t0 == setAudioBuffer(NewTrack(id), d)
        t1 == IF Len(s.tracks) > 0
              THEN setStartTime(t0, MaxOf({getEndTime(s.tracks[i]) : i \in DOMAIN s.tracks}))
              ELSE t0
        ts == Append(s.tracks, t1)
    IN notifyUpdate([s EXCEPT !.tracks = ts, !.duration = updateDuration(ts)])

\* addTrack once loadAudioFile has resolved with a buffer of length d.
addTrack(s, id, d) ==
    LET t0 == setAudioBuffer(NewTrack(id), d)
        t1 == IF Len(s.tracks) > 0
              THEN setStartTime(t0, getEndTime(s.tracks[Len(s.tracks)]))
              ELSE t0
        ts == Append(s.tracks, t1)
    IN notifyUpdate([s EXCEPT !.tracks = ts, !.duration = updateDuration(ts)])

\* AudioService.loadAudioFile settled: the decoded buffer (its length d), or the
\* rejection its catch block rethrows when arrayBuffer() or decodeAudioData fails.
loadAudioFile(decodes, d) ==
    IF decodes THEN [rejected |-> FALSE, duration |-> d]
    ELSE [rejected |-> TRUE, duration |-> 0]

\* Variant that differs from the code: the track is put on the timeline before
\* its samples are awaited, so a failed import leaves it there undecoded.
addTrackAwaited_TrackFirst(s, id, load) ==
    IF load.rejected
    THEN [service |-> [s EXCEPT !.tracks = Append(s.tracks, NewTrack(id)),
                                !.duration = updateDuration(Append(s.tracks, NewTrack(id)))],
          rejected |-> TRUE]
    ELSE [service |-> addTrack(s, id, load.duration), rejected |-> FALSE]

\* addTrack from its call to the settling of its promise: the track object is a
\* local until timeline.addTrack; a rejected await skips the rest of the try
\* block and the catch block logs and rethrows.
addTrackAwaited(s, id, load) ==
    IF load.rejected
    THEN [service |-> s, rejected |-> TRUE]
    ELSE [service |-> addTrack(s, id, load.duration), rejected |-> FALSE]

clearAll(s) ==
    notifyUpdate([stop(s) EXCEPT !.tracks = << >>, !.currentTime = 0, !.duration = 0,
                                 !.isPlaying = FALSE])

\* The 'ended' listener installed by playTracks: activeSources.delete(trackId).
onEnded(s, id) ==
    [s EXCEPT !.activeSources =
        [i \in DOMAIN s.activeSources \ {id} |-> s.activeSources[i]]]

\* -------------------------------------------------------------- actions
RECURSIVE Sum(_, _)
Sum(f, S) == IF S = {} THEN 0 ELSE LET x == CHOOSE y \in S : TRUE
                                   IN f[x] + Sum(f, S \ {x})

Fits(s) ==
    Cardinality(DOMAIN s.sources) + Sum(s.endedPending, DOMAIN s.endedPending)
        <= MaxSources

\* A source is an object and its handle here stands for its identity, which the
\* program never reads: between operations the handles are renumbered in the
\* order of (track, startAt, bufferOffset, unregistered), so that two states
\* that differ in the numbering alone are one state.
Before(s, x, y) ==
    LET a == s.sources[x]
        b == s.sources[y]
        ra == IF \E id \in DOMAIN s.activeSources : s.activeSources[id] = x THEN 0 ELSE 1
        rb == IF \E id \in DOMAIN s.activeSources : s.activeSources[id] = y THEN 0 ELSE 1
    IN \/ a.track < b.track
       \/ a.track = b.track /\ a.startAt < b.startAt
       \/ a.track = b.track /\ a.startAt = b.startAt /\ a.bufferOffset < b.bufferOffset
       \/ a.track = b.track /\ a.startAt = b.startAt /\ a.bufferOffset = b.bufferOffset
            /\ (ra < rb \/ (ra = rb /\ x < y))

Renumber(s) ==
    LET D == DOMAIN s.sources
        rank(x) == 1 + Cardinality({y \in D : Before(s, y, x)})
        at(r) == CHOOSE x \in D : rank(x) = r
    IN [s EXCEPT
          !.sources = [r \in 1..Cardinality(D) |-> s.sources[at(r)]],
          !.activeSources = [id \in DOMAIN s.activeSources |->
                                IF s.activeSources[id] \in D
                                THEN rank(s.activeSources[id])
                                ELSE s.activeSources[id]]]

Do(s) ==
    /\ Fits(s)
    /\ Set(Renumber(s))
    /\ UNCHANGED <<now, nextId, userLeft, importRejected, inFlight>>

Init ==
    /\ tracks = << >>
    /\ currentTime = 0
    /\ duration = 0
    /\ zoom = ZoomDefault
    /\ isPlaying = FALSE
    /\ activeSources = << >>
    /\ sources = << >>
    /\ endedPending = [id \in Ids |-> 0]
    /\ playbackStartTime = 0
    /\ subscribed = FALSE
    /\ timers = 0
    /\ tickSolo = FALSE
    /\ tickDue = 0
    /\ now = 0
    /\ nextId = 1
    /\ userLeft = FALSE
    /\ importRejected = FALSE
    /\ inFlight = {}
    /\ published = [tracks |-> tracks, currentTime |-> currentTime,
                    duration |-> duration, zoom |-> zoom, isPlaying |-> isPlaying]

AddTrack ==
    \E d \in Durations :
        /\ nextId \in Ids
        /\ Fits(addTrack(Cur, nextId, d))
        /\ Set(addTrack(Cur, nextId, d))
        /\ nextId' = nextId + 1
        /\ UNCHANGED <<now, userLeft, importRejected, inFlight>>

RemoveTrack == \E id \in TrackIds(tracks) : Do(removeTrack(Cur, id))

UpdateTrackPosition ==
    \E id \in TrackIds(tracks), t \in StartTimes :
        Do(updateTrackPosition(Cur, id, t))

ToggleTrackMute ==
    \E id \in TrackIds(tracks) : Do(toggleTrackMute(Cur, id, now))

ToggleTrackSolo ==
    \E id \in TrackIds(tracks) : Do(toggleTrackSolo(Cur, id, now))

Play ==
    /\ Do(play(Cur, now))
Pause ==
    /\ Do(pause(Cur))
Stop ==
    /\ Do(stop(Cur))
Seek ==
    /\ \E t \in SeekTimes : Do(seek(Cur, t, now))
ClearAll ==
    /\ Do(clearAll(Cur))

Tick ==
    /\ subscribed
    /\ now >= tickDue
    /\ Do(tick(Cur, now))

\* A source has played its buffer to the end and its 'ended' event is dispatched.
SourceEnded ==
    \E x \in DOMAIN sources :
        /\ now >= sources[x].endAt
        /\ Do([onEnded(Cur, sources[x].track) EXCEPT
                  !.sources = [y \in DOMAIN sources \ {x} |-> sources[y]]])

\* The 'ended' event of a source that was stopped is dispatched.
StoppedSourceEnded ==
    \E id \in Ids :
        /\ endedPending[id] > 0
        /\ Do([onEnded(Cur, id) EXCEPT !.endedPending[id] = endedPending[id] - 1])

Advance ==
    \E d \in ClockSteps :
        /\ now + d <= MaxNow
        /\ subscribed => now + d <= tickDue
        /\ now' = now + d
        /\ UNCHANGED <<tracks, currentTime, duration, zoom, isPlaying, activeSources,
                       sources, endedPending, playbackStartTime, subscribed, timers, tickSolo,
                       tickDue,
                       nextId, userLeft, importRejected, published,
                       inFlight>>

Next ==
    \/ AddTrack
    \/ RemoveTrack
    \/ UpdateTrackPosition
    \/ ToggleTrackMute
    \/ ToggleTrackSolo
    \/ Play
    \/ Pause
    \/ Stop
    \/ Seek
    \/ ClearAll
    \/ Tick
    \/ SourceEnded
    \/ StoppedSourceEnded
    \/ Advance

Spec == Init /\ [][Next]_vars

\* ------------------------------------------- AudioService under any caller
\* playTracks, stopTrack and stopAll are public and take the track array from the
\* caller: here the caller holds any array of up to two tracks (decoded or not,
\* muted or not, soloed or not) and calls them in any order with any position
\* and any solo flag.
TrackWith(id) ==
    {[id |-> id, audioBuffer |-> b, startTime |-> o, duration |-> IF b THEN d ELSE 0,
      volume |-> VolumeMax, isMuted |-> m, isSolo |-> x] :
        b \in BOOLEAN, o \in PassStarts, d \in PassDurations,
        m \in BOOLEAN, x \in BOOLEAN}

TrackArrays ==
    {<< >>} \cup {<<a>> : a \in TrackWith(1)}
            \cup {<<a, b>> : a \in TrackWith(1), b \in TrackWith(2)}

AudioInit ==
    /\ tracks \in TrackArrays
    /\ currentTime = 0
    /\ duration = updateDuration(tracks)
    /\ zoom = ZoomDefault
    /\ isPlaying = FALSE
    /\ activeSources = << >>
    /\ sources = << >>
    /\ endedPending = [id \in Ids |-> 0]
    /\ playbackStartTime = 0
    /\ subscribed = FALSE
    /\ timers = 0
    /\ tickSolo = FALSE
    /\ tickDue = 0
    /\ now = 0
    /\ nextId = Len(tracks) + 1
    /\ userLeft = FALSE
    /\ importRejected = FALSE
    /\ inFlight = {}
    /\ published = [tracks |-> tracks, currentTime |-> currentTime,
                    duration |-> duration, zoom |-> zoom, isPlaying |-> isPlaying]

AudioPlayTracks ==
    /\ \E t \in PassPositions, hasSoloTracks \in BOOLEAN :
        Do(playTracks(Cur, t, hasSoloTracks, now))

AudioStopTrack ==
    /\ \E id \in Ids : Do(stopTrack(Cur, id))

AudioStopAll ==
    /\ Do(stopAll(Cur))

\* The handles the registry holds.
Registered == {activeSources[id] : id \in DOMAIN activeSources}

AudioStopTrackRaising ==
    /\ \E id \in DOMAIN activeSources :
         Do(stopTrackRaising(Cur, id, {activeSources[id]}).service)

AudioStopAllRaising ==
    /\ \E raising \in SUBSET Registered \ {{}} :
         Do(stopAllRaising(Cur, raising).service)

AudioNext ==
    \/ AudioPlayTracks
    \/ AudioStopTrack
    \/ AudioStopAll
    \/ AudioStopTrackRaising
    \/ AudioStopAllRaising
    \/ StoppedSourceEnded

SpecAudio == AudioInit /\ [][AudioNext]_vars

\* The start calls of the AudioService alone, playTrack among them, on any array
\* of tracks.
AudioPlayTrack ==
    /\ \E i \in DOMAIN tracks, t \in PassPositions, ctx \in {{}, {now + LookAheadMs}} :
         Do(playTrack(Cur, tracks[i], t, ctx, now))

TrackNext ==
    \/ AudioPlayTrack
    \/ AudioPlayTracks

SpecTrack == AudioInit /\ [][TrackNext]_vars

\* ------------------------------------------------- editing while stopped
\* The timeline is edited with the transport at rest: clips of realistic length
\* are imported, dragged, removed, their volume and the zoom are set, and the
\* playhead is moved, with arguments inside and outside the legal ranges.
EditAddTrack ==
    \E d \in EditDurations :
        LET r == addTrackAwaited(Cur, nextId, loadAudioFile(TRUE, d))
        IN /\ nextId \in Ids
           /\ Set(r.service)
           /\ importRejected' = r.rejected
           /\ nextId' = nextId + 1
           /\ UNCHANGED <<now, userLeft, inFlight>>

\* An import whose file cannot be decoded.
EditImportFails ==
    LET r == addTrackAwaited(Cur, nextId, loadAudioFile(FALSE, 0))
    IN /\ Set(r.service)
       /\ importRejected' = r.rejected
       /\ UNCHANGED <<now, nextId, userLeft, inFlight>>

EditMoveTrack ==
    /\ \E id \in TrackIds(tracks), t \in EditStarts : Do(updateTrackPosition(Cur, id, t))

EditSetVolume ==
    /\ \E id \in TrackIds(tracks), v \in EditVolumes : Do(updateTrackVolume(Cur, id, v))

EditSetZoom ==
    /\ \E z \in EditZooms : Do(setZoomLevel(Cur, z))

EditSeek ==
    /\ \E t \in EditSeeks : Do(seek(Cur, t, now))

EditNext ==
    \/ EditAddTrack
    \/ EditImportFails
    \/ RemoveTrack
    \/ EditMoveTrack
    \/ EditSetVolume
    \/ EditSetZoom
    \/ EditSeek
    \/ ClearAll

SpecEdit == Init /\ [][EditNext]_vars

\* ------------------------------------------------ the end of the timeline
\* A second specification for the run to the end of the timeline: one clip of
\* 200 ms that the user can move next to the 60 s floor, a seek just before it,
\* and a user who at some point makes no further operation.  Until then the bound
\* on the sources applies; afterwards the interval callback runs unbounded.
RunMaxNow == 300
RunIds == {1}
RunDurations == {200}
RunStarts == {59900}
RunSeeks == {59900}

RunAddTrack ==
    /\ ~userLeft
    /\ \E d \in RunDurations :
        /\ nextId \in RunIds
        /\ Fits(addTrack(Cur, nextId, d))
        /\ Set(addTrack(Cur, nextId, d))
        /\ nextId' = nextId + 1
        /\ UNCHANGED <<now, userLeft, importRejected, inFlight>>

RunMoveTrack ==
    /\ ~userLeft
    /\ \E id \in TrackIds(tracks), t \in RunStarts : Do(updateTrackPosition(Cur, id, t))

RunSeek ==
    /\ ~userLeft
    /\ \E t \in RunSeeks : Do(seek(Cur, t, now))

RunPlay ==
    /\ ~userLeft
    /\ Do(play(Cur, now))

RunPause ==
    /\ ~userLeft
    /\ Do(pause(Cur))

\* The user walks away during playback, with the end of the timeline (and the
\* interval firing that follows it) inside the horizon of the clock.
UserLeaves ==
    /\ ~userLeft
    /\ isPlaying
    /\ playbackStartTime + duration + TickMs <= RunMaxNow
    /\ userLeft' = TRUE
    /\ UNCHANGED <<tracks, currentTime, duration, zoom, isPlaying, activeSources,
                   sources, endedPending, playbackStartTime, subscribed, timers, tickSolo,
                   tickDue, now, nextId, importRejected, published, inFlight>>

RunTick ==
    /\ subscribed
    /\ now >= tickDue
    /\ \E c \in {Cur} : \E t1 \in {tick(c, now)} : \E f \in {Renumber(t1)} :
          /\ userLeft \/ Fits(f)
          /\ Set(f)
    /\ UNCHANGED <<now, nextId, userLeft, importRejected, inFlight>>

RunAdvance ==
    \E d \in ClockSteps :
        /\ now + d <= RunMaxNow
        /\ subscribed => now + d <= tickDue
        /\ now' = now + d
        /\ UNCHANGED <<tracks, currentTime, duration, zoom, isPlaying, activeSources,
                       sources, endedPending, playbackStartTime, subscribed, timers, tickSolo,
                       tickDue, nextId, userLeft, importRejected, published,
                       inFlight>>

RunNext ==
    \/ RunAddTrack
    \/ RunMoveTrack
    \/ RunSeek
    \/ RunPlay
    \/ RunPause
    \/ UserLeaves
    \/ RunTick
    \/ SourceEnded
    \/ StoppedSourceEnded
    \/ RunAdvance

\* The clock advances and the interval timer fires its callback when it is due.
SpecRun == Init /\ [][RunNext]_vars /\ WF_vars(RunTick) /\ WF_vars(RunAdvance)

\* ------------------------------------------------------------ the mixer
\* A third specification, for the mixer controls of a track during playback and
\* at rest: volume, mute and solo, with play, pause, the interval callback and
\* the 'ended' events of stopped sources (no source plays its 100 ms out before
\* the clock stops at MaxNow, every start being scheduled LookAheadMs ahead).
MixVolumes == {50}

MixSetVolume ==
    \E id \in TrackIds(tracks), v \in MixVolumes : Do(updateTrackVolume(Cur, id, v))

MixNext ==
    \/ AddTrack
    \/ MixSetVolume
    \/ ToggleTrackMute
    \/ ToggleTrackSolo
    \/ Play
    \/ Pause
    \/ Tick
    \/ StoppedSourceEnded
    \/ Advance

SpecMix == Init /\ [][MixNext]_vars

\* ------------------------------------------------------ backend faults
\* A fourth specification: a backend whose source.start can raise.
PlayRejected ==
    \E bad \in TrackIds(tracks) :
        /\ playRejecting(Cur, now, bad).thrown
        /\ Do(playRejecting(Cur, now, bad).service)

TickRejected ==
    \E bad \in TrackIds(tracks), keeps \in BOOLEAN :
        /\ subscribed
        /\ now >= tickDue
        /\ tickRejecting(Cur, now, bad, keeps).thrown
        /\ Do(tickRejecting(Cur, now, bad, keeps).service)

FaultNext ==
    \/ AddTrack
    \/ UpdateTrackPosition
    \/ Play
    \/ PlayRejected
    \/ Pause
    \/ Tick
    \/ TickRejected
    \/ StoppedSourceEnded
    \/ Advance

SpecFault == Init /\ [][FaultNext]_vars

\* ----------------------------------------------------- imports in flight
\* A fifth specification: addTrack is called for up to three files before any
\* decode settles, and the decodes settle in any order, between drags and
\* removals of the tracks that are already on the timeline.
ImportIds == {1, 2, 3}
ImportDurations == {30000, 70000}
ImportStarts == {0, 100000}

\* addTrack up to its await: the track object exists, with its id, as a local.
ImportCall ==
    /\ nextId \in ImportIds
    /\ inFlight' = inFlight \cup {nextId}
    /\ nextId' = nextId + 1
    /\ UNCHANGED <<tracks, currentTime, duration, zoom, isPlaying, activeSources,
                   sources, endedPending, playbackStartTime, subscribed, timers, tickSolo,
                   tickDue, now, userLeft, importRejected, published>>

ImportCompletes ==
    \E id \in inFlight, d \in ImportDurations :
        LET r == addTrackAwaited(Cur, id, loadAudioFile(TRUE, d))
        IN /\ Set(r.service)
           /\ importRejected' = r.rejected
           /\ inFlight' = inFlight \ {id}
           /\ UNCHANGED <<now, nextId, userLeft>>

ImportRejected ==
    \E id \in inFlight :
        LET r == addTrackAwaited(Cur, id, loadAudioFile(FALSE, 0))
        IN /\ Set(r.service)
           /\ importRejected' = r.rejected
           /\ inFlight' = inFlight \ {id}
           /\ UNCHANGED <<now, nextId, userLeft>>

ImportMoveTrack ==
    /\ \E id \in TrackIds(tracks), t \in ImportStarts : Do(updateTrackPosition(Cur, id, t))

ImportNext ==
    \/ ImportCall
    \/ ImportCompletes
    \/ ImportRejected
    \/ ImportMoveTrack
    \/ RemoveTrack

SpecImport == Init /\ [][ImportNext]_vars

\* ------------------------------------------------------------- glossary
\* A source is live: started, not stopped, and its buffer not played out.
LiveIn(s, x) == now < s.sources[x].endAt
LiveOfIn(s, id) == {x \in DOMAIN s.sources : s.sources[x].track = id /\ LiveIn(s, x)}
SoundingIn(s) == {id \in Ids : LiveOfIn(s, id) # {}}
LiveOf(id) == LiveOfIn(Cur, id)
Sounding == SoundingIn(Cur)

\* The reconciliation passes the service can run in the current state.  Each is
\* one call of playTracks: by, the operation that makes it (arg, the track or the
\* time it is given); pre, the service at the call; p and flag, the position and
\* the solo flag passed to it.
PassRec(by, arg, pre, flag) ==
    [by |-> by, arg |-> arg, pre |-> pre, p |-> pre.currentTime, flag |-> flag]

PlayPasses ==
    IF isPlaying THEN {}
    ELSE {PassRec("play", 0, playAnchor(Cur, now), hasAnySoloTracks(tracks))}

TickPasses ==
    IF subscribed /\ now >= tickDue
    THEN {PassRec("tick", 0, tickClock(Cur, now), tickSolo)}
    ELSE {}

MutePasses ==
    IF isPlaying
    THEN {PassRec("toggleTrackMute", id, muteFlip(Cur, id),
                  hasAnySoloTracks(muteFlip(Cur, id).tracks)) : id \in TrackIds(tracks)}
    ELSE {}

SoloPasses ==
    IF isPlaying
    THEN {PassRec("toggleTrackSolo", id, playAnchor(pause(soloFlip(Cur, id)), now),
                  hasAnySoloTracks(soloFlip(Cur, id).tracks)) : id \in TrackIds(tracks)}
    ELSE {}

SeekPasses ==
    IF isPlaying
    THEN {PassRec("seek", t, playAnchor(seekMove(Cur, t), now),
                  hasAnySoloTracks(tracks)) : t \in SeekTimes}
    ELSE {}

Passes == PlayPasses \cup TickPasses \cup MutePasses \cup SoloPasses \cup SeekPasses

\* The service when the pass returns, and when the operation that made it returns.
Post(ps) == playTracks(ps.pre, ps.p, ps.flag, now)

Final(ps) ==
    CASE ps.by = "play" -> play(Cur, now)
      [] ps.by = "tick" -> tick(Cur, now)
      [] ps.by = "toggleTrackMute" -> toggleTrackMute(Cur, ps.arg, now)
      [] ps.by = "toggleTrackSolo" -> toggleTrackSolo(Cur, ps.arg, now)
      [] ps.by = "seek" -> seek(Cur, ps.arg, now)

\* The tracks a pass issued a start for, and the nodes it created.
Started(ps) ==
    LET post == Post(ps)
    IN {post.sources[x].track : x \in DOMAIN post.sources \ DOMAIN ps.pre.sources}

\* Half-open interval test of the spec: startTime <= t < endTime.
ActiveAt(tr, t) == tr.startTime <= t /\ t < tr.startTime + tr.duration
AnySolo(ts) == \E i \in DOMAIN ts : ts[i].isSolo

TypeOK ==
    /\ currentTime \in Int
    /\ isPlaying \in BOOLEAN
    /\ userLeft \in BOOLEAN
    /\ importRejected \in BOOLEAN
    /\ subscribed \in BOOLEAN
    /\ timers \in Nat
    /\ inFlight \subseteq 1..(nextId - 1)
    /\ DOMAIN sources = 1..Cardinality(DOMAIN sources)
    /\ DOMAIN sources \subseteq 1..MaxSources
    /\ \A id \in DOMAIN activeSources : activeSources[id] \in DOMAIN sources

\* The tracks the code's filter lets sound: decoded, not muted, soloed when any
\* track of the timeline is, and active at position t.
WantedIn(s, t) ==
    {s.tracks[i].id : i \in {j \in DOMAIN s.tracks :
        /\ s.tracks[j].audioBuffer
        /\ ~s.tracks[j].isMuted
        /\ (AnySolo(s.tracks) => s.tracks[j].isSolo)
        /\ ActiveAt(s.tracks[j], t)}}

\* ---------------------------------------------------------------- claims
\* C1 (as claimed): while the transport is playing, when an operation that runs a
\* reconciliation pass returns (play, a tick, a mute or solo toggle, a seek), the
\* tracks with a live source are exactly the decoded, audible tracks whose
\* interval [startTime, endTime) contains the position.
C1_SoundingEqualsWanted ==
    \A ps \in Passes :
        LET f == Final(ps)
        IN f.isPlaying => SoundingIn(f) = WantedIn(f, f.currentTime)

\* C2 (as claimed): each track has at most one backend source that was started
\* and has neither been stopped nor ended.
C2_AtMostOneLiveSource ==
    \A id \in Ids : Cardinality(LiveOf(id)) <= 1

\* C3 (as claimed): whenever the transport is paused or stopped, no source the
\* scheduler started is still live.
C3_NoLiveSourceWhenNotPlaying ==
    ~isPlaying => \A x \in DOMAIN sources : ~LiveIn(Cur, x)

\* C4 (as claimed): all live sources share one value of scheduled start instant -
\* bufferOffset - track startTime.  Stated of the registered sources only, which
\* leaves out the sources that lost their registry entry (C2).
Phase(x) ==
    sources[x].startAt - sources[x].bufferOffset
        - getTrack(tracks, sources[x].track).startTime

C4_PhaseAligned ==
    \A x, y \in {activeSources[id] : id \in DOMAIN activeSources} :
        LiveIn(Cur, x) /\ LiveIn(Cur, y) => Phase(x) = Phase(y)

\* C5 (as claimed): when some track is soloed, a decoded track that is both soloed
\* and muted and active at the position is started by the pass: it has a registry
\* entry when the operation returns.
C5_SoloOverridesMute ==
    \A ps \in Passes :
        LET f == Final(ps)
        IN \A i \in DOMAIN f.tracks :
            (/\ f.isPlaying
             /\ f.tracks[i].audioBuffer /\ f.tracks[i].isSolo /\ f.tracks[i].isMuted
             /\ ActiveAt(f.tracks[i], f.currentTime))
            => f.tracks[i].id \in DOMAIN f.activeSources

\* C5 (amended): mute takes precedence over solo on the same track.  No pass
\* starts a muted track, soloed or not, and no muted track has a registry entry.
C5_MuteOverridesSolo ==
    /\ \A ps \in Passes : \A i \in DOMAIN ps.pre.tracks :
           ps.pre.tracks[i].isMuted => ps.pre.tracks[i].id \notin Started(ps)
    /\ \A i \in DOMAIN tracks :
           tracks[i].isMuted => tracks[i].id \notin DOMAIN activeSources

\* C5 witness: playing with a soloed, unmuted track registered, while a track that
\* is soloed and muted and active at the position has no entry.
C5_Witness ==
    /\ isPlaying
    /\ \E i, j \in DOMAIN tracks :
          /\ tracks[i].isSolo /\ tracks[i].isMuted /\ tracks[i].audioBuffer
          /\ ActiveAt(tracks[i], currentTime)
          /\ tracks[i].id \notin DOMAIN activeSources
          /\ tracks[j].isSolo /\ ~tracks[j].isMuted
          /\ tracks[j].id \in DOMAIN activeSources
          /\ sources[activeSources[tracks[j].id]].startAt = now + LookAheadMs

\* C6 (as claimed): whenever some track of the timeline is soloed, no track that is
\* not soloed has a live source, and no pass starts one.
C6_SoloExclusive ==
    /\ AnySolo(tracks) =>
          \A i \in DOMAIN tracks : ~tracks[i].isSolo => LiveOf(tracks[i].id) = {}
    /\ \A ps \in Passes : AnySolo(ps.pre.tracks) =>
          \A i \in DOMAIN ps.pre.tracks :
              ~ps.pre.tracks[i].isSolo => ps.pre.tracks[i].id \notin Started(ps)

\* C6, of the registry alone: whenever some track is soloed, no track that is not
\* soloed has a registry entry and no pass starts one.
C6_SoloExclusiveRegistry ==
    /\ AnySolo(tracks) =>
          \A i \in DOMAIN tracks :
              ~tracks[i].isSolo => tracks[i].id \notin DOMAIN activeSources
    /\ \A ps \in Passes : AnySolo(ps.pre.tracks) =>
          \A i \in DOMAIN ps.pre.tracks :
              ~ps.pre.tracks[i].isSolo => ps.pre.tracks[i].id \notin Started(ps)

C8_TickUsesCurrentSolo ==
    \A ps \in TickPasses :
        Post(ps) = playTracks(ps.pre, ps.p, hasAnySoloTracks(ps.pre.tracks), now)

\* C9: no pass issues a start for a track whose id is in the registry when the
\* pass runs.
C9_NoStartWhileRegistered ==
    \A ps \in Passes : Started(ps) \cap DOMAIN ps.pre.activeSources = {}

\* C9 witness: a pass that starts one track while another track, wanted at the
\* same position, is registered and gets no start.
C9_Witness ==
    \E ps \in Passes :
        /\ Started(ps) # {}
        /\ \E id \in DOMAIN ps.pre.activeSources :
              /\ id \in WantedIn(ps.pre, ps.p)
              /\ id \notin Started(ps)
              /\ Post(ps).activeSources[id] = ps.pre.activeSources[id]

\* A track keeps its source over an operation that ends in service state f: same
\* registry entry, same node, no stop issued to a source of the track and no new
\* node created for it.
Kept(id, f) ==
    /\ id \in DOMAIN f.activeSources
    /\ f.activeSources[id] = activeSources[id]
    /\ activeSources[id] \in DOMAIN f.sources
    /\ f.sources[activeSources[id]] = sources[activeSources[id]]
    /\ f.endedPending[id] = endedPending[id]
    /\ \A x \in DOMAIN f.sources \ DOMAIN sources : f.sources[x].track # id

KeptByAll(passes) ==
    \A ps \in passes :
        LET f == Final(ps)
        IN \A id \in DOMAIN activeSources :
            (/\ LiveIn(Cur, activeSources[id])
             /\ id \in WantedIn(f, f.currentTime))
            => Kept(id, f)

NewSources(pre, post) == DOMAIN post.sources \ DOMAIN pre.sources

\* C11: a second call of playTracks / updatePlayback with the same tracks,
\* position and solo flag, made right after the first or a tick later with no
\* 'ended' event dispatched in between, starts nothing, stops nothing and leaves
\* the registry as the first call left it.
C11_ReconcileIdempotent ==
    \A t \in PassPositions, flag \in BOOLEAN :
        LET post == playTracks(Cur, t, flag, now)
        IN /\ playTracks(post, t, flag, now) = post
           /\ updatePlayback(post, t, flag, now + TickMs) = post

\* C11 witness: two tracks were started by one call (same instant, offsets that
\* fit one position) and are registered, and that call made again changes
\* nothing.
C11_Witness ==
    \E t \in PassPositions, flag \in BOOLEAN :
        /\ Cardinality(DOMAIN activeSources) = 2
        /\ \A id \in DOMAIN activeSources :
               /\ sources[activeSources[id]].startAt = now + LookAheadMs
               /\ sources[activeSources[id]].bufferOffset
                     = Max(0, t - getTrack(tracks, id).startTime)
        /\ playTracks(Cur, t, flag, now) = Cur

\* C12: all the sources one call of playTracks starts are scheduled at one and the
\* same instant, the backend clock at the call plus the look-ahead.
C12_OneStartInstant ==
    \A t \in PassPositions, flag \in BOOLEAN :
        LET post == playTracks(Cur, t, flag, now)
        IN \A x \in NewSources(Cur, post) :
               post.sources[x].startAt = now + LookAheadMs

\* C12 witness: two tracks started by one call, one from the head of its buffer
\* and one from inside it, both scheduled at the clock plus the look-ahead.
C12_Witness ==
    \E id1, id2 \in DOMAIN activeSources :
        /\ id1 # id2
        /\ sources[activeSources[id1]].bufferOffset = 0
        /\ sources[activeSources[id2]].bufferOffset > 0
        /\ sources[activeSources[id1]].startAt = now + LookAheadMs
        /\ sources[activeSources[id2]].startAt = now + LookAheadMs

\* C13: every start a call of playTracks at position p issues for a track with
\* startTime o and duration d has bufferOffset = max(0, p - o) and
\* bufferOffset < d; a track with o > p is not started and a track with
\* p - o >= d is not started.
C13_BufferOffset ==
    \A p \in PassPositions, flag \in BOOLEAN :
        LET post == playTracks(Cur, p, flag, now)
            started == {post.sources[x].track : x \in NewSources(Cur, post)}
        IN /\ \A x \in NewSources(Cur, post) :
                 LET tr == getTrack(tracks, post.sources[x].track)
                 IN /\ post.sources[x].bufferOffset = Max(0, p - tr.startTime)
                    /\ post.sources[x].bufferOffset < tr.duration
           /\ \A i \in DOMAIN tracks :
                 (tracks[i].startTime > p \/ p - tracks[i].startTime >= tracks[i].duration)
                 => tracks[i].id \notin started

\* C13 witness: a track placed at o was started 50 ms into its buffer (a call at
\* position o + 50) while an audible track that is over at that position, or
\* not begun, has no source.
C13_Witness ==
    \E id \in DOMAIN activeSources : \E i \in DOMAIN tracks :
        LET p == getTrack(tracks, id).startTime + 50
        IN /\ sources[activeSources[id]].bufferOffset = 50
           /\ tracks[i].audioBuffer /\ ~tracks[i].isMuted
           /\ (tracks[i].startTime > p \/ p - tracks[i].startTime >= tracks[i].duration)
           /\ tracks[i].id \notin DOMAIN activeSources
           /\ \A x \in DOMAIN sources : sources[x].track # tracks[i].id
           /\ endedPending[tracks[i].id] = 0

\* r is s with some elements left out, the others in the order they have in s.
RECURSIVE IsSubSeq(_, _)
IsSubSeq(r, s) ==
    IF r = << >> THEN TRUE
    ELSE IF s = << >> THEN FALSE
    ELSE IF Head(r) = Head(s) THEN IsSubSeq(Tail(r), Tail(s))
    ELSE IsSubSeq(r, Tail(s))

\* C14: getActiveTracks(t) returns exactly the tracks of the timeline with
\* startTime <= t < startTime + duration, in timeline order: a track is active
\* at its start instant and not at its end instant.
C14_ActiveTracks ==
    \A t \in ProbeTimes :
        LET r == getActiveTracks(tracks, t)
        IN /\ IsSubSeq(r, tracks)
           /\ \A i \in DOMAIN tracks :
                 (\E k \in DOMAIN r : r[k] = tracks[i])
                 <=> (tracks[i].startTime <= t
                        /\ t < tracks[i].startTime + tracks[i].duration)
           /\ \A i \in DOMAIN tracks :
                 /\ t = tracks[i].startTime /\ tracks[i].duration > 0
                      => \E k \in DOMAIN r : r[k] = tracks[i]
                 /\ t = tracks[i].startTime + tracks[i].duration
                      => \A k \in DOMAIN r : r[k] # tracks[i]

\* C14 witness: a track dragged to 70 s under the playhead is returned at its
\* start instant and in its last millisecond, and is not returned at its end
\* instant, where the result is empty.
C14_Witness ==
    \E i \in DOMAIN tracks :
        /\ tracks[i].startTime = 70000 /\ getEndTime(tracks[i]) = 110000
        /\ currentTime = 70000
        /\ getActiveTracks(tracks, currentTime) = <<tracks[i]>>
        /\ getActiveTracks(tracks, 109999) = <<tracks[i]>>
        /\ getActiveTracks(tracks, 110000) = << >>

\* The largest endTime of the tracks of a non-empty timeline.
MaxEnd == MaxOf({getEndTime(tracks[i]) : i \in DOMAIN tracks})

\* C15 (as claimed): the duration is 60 s for the empty timeline and for any
\* timeline whose tracks all end before 60 s, be it freshly constructed, emptied
\* by removeTrack or cleared.
C15_DurationFloor ==
    (tracks = << >> \/ MaxEnd < MinDuration) => duration = MinDuration

\* C15 (amended): the duration is 0 for the empty timeline (freshly constructed,
\* after the last track is removed, after clear()) and 60 s for a timeline that
\* has tracks, all ending within 60 s.
C15_DurationFloorNonEmpty ==
    /\ tracks = << >> => duration = 0
    /\ (tracks # << >> /\ MaxEnd <= MinDuration) => duration = MinDuration

\* C15, the floor at work: a timeline whose one track is left of two imported and ends at
\* 40 s, so the floor applies.
C15_WitnessFloor ==
    /\ nextId = 3 /\ Len(tracks) = 1
    /\ MaxEnd = 40000
    /\ duration = MinDuration

\* C15 witness: every imported track has been removed again and the duration is 0.
C15_Witness ==
    /\ nextId = 3 /\ tracks = << >> /\ duration = 0

\* C16: after any sequence of addTrack, removeTrack and updateTrackPosition the
\* duration is at least the endTime of every track of the timeline, and it is
\* the largest endTime whenever that exceeds 60 s.
C16_DurationCoversTracks ==
    /\ \A i \in DOMAIN tracks : duration >= getEndTime(tracks[i])
    /\ (tracks # << >> /\ MaxEnd > MinDuration) => duration = MaxEnd

\* C16 witness: two tracks, the first dragged to 70 s so that it ends last, at
\* 110 s, which is the duration.
C16_Witness ==
    /\ Len(tracks) = 2
    /\ tracks[1].startTime = 70000
    /\ getEndTime(tracks[2]) < getEndTime(tracks[1])
    /\ duration = 110000

\* C17 (as claimed): in every reachable state 0 <= currentTime <= duration.
C17_PositionWithinDuration ==
    0 <= currentTime /\ currentTime <= duration

\* C17, of timelines that have tracks: the position is within the duration.
C17_PositionWithinDurationNonEmpty ==
    tracks # << >> => (0 <= currentTime /\ currentTime <= duration)

\* The nearest value of [lo, hi] to v.
Nearest(lo, hi, v) == IF v < lo THEN lo ELSE IF v > hi THEN hi ELSE v

\* C18: whatever the arguments of setZoom, setVolume and setStartTime were, the
\* zoom is in [10, 200], every track's volume is in [0, 1] and every track's
\* startTime is >= 0; each call stores its argument when it is in range and the
\* nearest bound when it is not.
C18_Clamped ==
    /\ ZoomMin <= zoom /\ zoom <= ZoomMax
    /\ \A i \in DOMAIN tracks :
          /\ 0 <= tracks[i].volume /\ tracks[i].volume <= VolumeMax
          /\ tracks[i].startTime >= 0
    /\ \A z \in EditZooms : setZoomLevel(Cur, z).zoom = Nearest(ZoomMin, ZoomMax, z)
    /\ \A id \in TrackIds(tracks) :
          /\ \A v \in EditVolumes :
                getTrack(updateTrackVolume(Cur, id, v).tracks, id).volume
                    = Nearest(0, VolumeMax, v)
          /\ \A t \in EditStarts :
                getTrack(updateTrackPosition(Cur, id, t).tracks, id).startTime
                    = (IF t < 0 THEN 0 ELSE t)

\* C18 witness: the zoom at its upper bound (setZoom(500)), a track silenced by
\* a negative volume and a second track at 0, where a drag put it.
C18_Witness ==
    /\ zoom = ZoomMax
    /\ Len(tracks) = 2
    /\ tracks[1].volume = 0
    /\ tracks[2].volume = 50
    /\ tracks[2].startTime = 0

\* C19 (as claimed): pause() leaves the position where the last tick put it; the
\* play() that follows hands that position to its reconciliation pass, anchors
\* the clock on it and leaves it in place; and no tick reports a position
\* smaller than the one before it, so none of that playback reports less than
\* the position play() resumed from.
C19_ResumeFromPause ==
    /\ isPlaying => pause(Cur).currentTime = currentTime
    /\ \A ps \in PlayPasses :
          /\ ps.p = currentTime
          /\ Final(ps).currentTime = currentTime
          /\ Final(ps).playbackStartTime = now - currentTime
    /\ \A ps \in TickPasses : ps.p >= currentTime

\* C19, pause() and play() alone: the position is kept by pause() and by play(),
\* and play() hands it to its pass and anchors the clock on it.
C19_PauseAndPlayKeepPosition ==
    /\ isPlaying => pause(Cur).currentTime = currentTime
    /\ \A ps \in PlayPasses :
          /\ ps.p = currentTime
          /\ Final(ps).currentTime = currentTime
          /\ Final(ps).playbackStartTime = now - currentTime

\* C20: stop() leaves isPlaying false, the position 0, the registry empty and the
\* interval unsubscribed; while the transport is at rest no tick is pending and
\* the registry stays empty, and from position 0 at rest no step moves the
\* position except a seek (play() starts from it).
C20_StopHalts ==
    /\ [](LET f == stop(Cur)
          IN /\ ~f.isPlaying /\ f.currentTime = 0
             /\ DOMAIN f.activeSources = {} /\ ~f.subscribed)
    /\ [](~isPlaying => (~subscribed /\ DOMAIN activeSources = {}))
    /\ [][(~isPlaying /\ currentTime = 0)
            => \/ currentTime' = 0
               \/ /\ ~isPlaying'
                  /\ \E t \in SeekTimes : currentTime' = setCurrentTime(t, duration)]_vars

\* C20 witness: stop() called while playing past position 0 with a source
\* registered and the interval subscribed: it resets all four.
C20_Witness ==
    /\ isPlaying /\ currentTime > 0 /\ subscribed
    /\ DOMAIN activeSources # {}
    /\ LET f == stop(Cur)
       IN /\ ~f.isPlaying /\ f.currentTime = 0 /\ ~f.subscribed
          /\ DOMAIN f.activeSources = {}
          /\ \E id \in DOMAIN activeSources : f.endedPending[id] = endedPending[id] + 1

\* C21 (as claimed): seek(t) while playing ends with the transport playing, the
\* position equal to t clamped into [0, duration], every source that was sounding
\* before the seek stopped, and new sources only for the tracks wanted at the new
\* position, each with bufferOffset = new position - startTime; seek(t) while not
\* playing only sets the clamped position and starts no source.
C21_SeekRestarts ==
    \A t \in SeekTimes :
        LET moved == seekMove(Cur, t)
            final == seek(Cur, t, now)
            pos == Nearest(0, duration, t)
        IN IF isPlaying
           THEN /\ final.isPlaying
                /\ final.currentTime = pos
                /\ \A x \in DOMAIN sources : LiveIn(Cur, x) => x \notin DOMAIN moved.sources
                /\ \A x \in DOMAIN final.sources \ DOMAIN moved.sources :
                     /\ final.sources[x].track \in WantedIn(final, pos)
                     /\ final.sources[x].bufferOffset
                          = pos - getTrack(final.tracks, final.sources[x].track).startTime
           ELSE final = notifyUpdate([Cur EXCEPT !.currentTime = pos])

\* C22 (as claimed): if the transport is playing and the user makes no further
\* operation, the transport eventually stops, and the step that stops it is the
\* tick that brings the position to the total duration: it leaves isPlaying
\* false, the interval unsubscribed and no source sounding.
C22_AutoStop ==
    /\ (userLeft /\ isPlaying) ~> ~isPlaying
    /\ [][(userLeft /\ isPlaying /\ ~isPlaying')
            => /\ subscribed /\ now >= tickDue
               /\ tickClock(Cur, now).currentTime = duration
               /\ ~subscribed'
               /\ \A x \in DOMAIN sources' : ~(now' < sources'[x].endAt)]_vars

\* The same with "all sources are stopped" read on the registry: every source
\* the service holds a handle of is stopped and the registry is empty.
C22_AutoStopRegistered ==
    /\ (userLeft /\ isPlaying) ~> (~isPlaying /\ ~subscribed /\ DOMAIN activeSources = {})
    /\ [][(userLeft /\ isPlaying /\ ~isPlaying')
            => /\ subscribed /\ now >= tickDue
               /\ tickClock(Cur, now).currentTime = duration
               /\ ~subscribed'
               /\ DOMAIN activeSources' = {}
               /\ \A id \in DOMAIN activeSources :
                    endedPending'[id] = endedPending[id] + 1]_vars

\* C23: updateTrackVolume issues no stop and no start and leaves the registry,
\* the position, the playing flag and every other track unchanged, whether or not
\* the track is sounding: it sets the clamped volume of the named track, nothing
\* else.
C23_VolumeFrame ==
    \A id \in TrackIds(tracks), v \in EditVolumes :
        LET f == updateTrackVolume(Cur, id, v)
        IN /\ f.sources = sources
           /\ f.endedPending = endedPending
           /\ f.activeSources = activeSources
           /\ f.currentTime = currentTime
           /\ f.isPlaying = isPlaying
           /\ f.subscribed = subscribed
           /\ DOMAIN f.tracks = DOMAIN tracks
           /\ \A i \in DOMAIN tracks :
                f.tracks[i] = IF tracks[i].id = id
                              THEN [tracks[i] EXCEPT !.volume = Nearest(0, VolumeMax, v)]
                              ELSE tracks[i]

\* C23 witness: a volume change was made while the track was sounding (its
\* registered live source still has the gain of its start) and the other track,
\* sounding too, kept its volume.
C23_Witness ==
    /\ isPlaying
    /\ \E x \in DOMAIN sources :
         /\ LiveIn(Cur, x)
         /\ sources[x].track \in DOMAIN activeSources
         /\ activeSources[sources[x].track] = x
         /\ getTrack(tracks, sources[x].track).volume # sources[x].gain
    /\ \E y \in DOMAIN sources :
         /\ LiveIn(Cur, y)
         /\ getTrack(tracks, sources[y].track).volume = VolumeMax

\* C24 (as claimed): at all times the gain applied to a track's sounding source
\* equals the track's current volume.
C24_GainFollowsVolume ==
    \A x \in DOMAIN sources :
        (LiveIn(Cur, x) /\ sources[x].track \in TrackIds(tracks))
            => sources[x].gain = getTrack(tracks, sources[x].track).volume

\* C25: toggleTrackMute and toggleTrackSolo called while the transport is not
\* playing flip only the flag of the named track: no start, no stop, and the
\* registry, the position, the playing flag and the other tracks are unchanged.
C25_TogglesAtRest ==
    ~isPlaying =>
        \A id \in TrackIds(tracks) :
            LET m == toggleTrackMute(Cur, id, now)
                so == toggleTrackSolo(Cur, id, now)
            IN /\ m = notifyUpdate([Cur EXCEPT !.tracks =
                         [i \in DOMAIN tracks |->
                            IF tracks[i].id = id
                            THEN [tracks[i] EXCEPT !.isMuted = ~tracks[i].isMuted]
                            ELSE tracks[i]]])
               /\ so = notifyUpdate([Cur EXCEPT !.tracks =
                          [i \in DOMAIN tracks |->
                             IF tracks[i].id = id
                             THEN [tracks[i] EXCEPT !.isSolo = ~tracks[i].isSolo]
                             ELSE tracks[i]]])

\* C25 witness: the transport paused past position 0 with two tracks, one of them
\* muted and soloed by toggles, and a toggle of the other about to flip its flag.
C25_Witness ==
    /\ ~isPlaying /\ currentTime > 0 /\ Len(tracks) = 2
    /\ tracks[1].isMuted /\ tracks[1].isSolo
    /\ ~tracks[2].isMuted /\ ~tracks[2].isSolo
    /\ toggleTrackMute(Cur, 2, now).tracks[2].isMuted
    /\ toggleTrackSolo(Cur, 2, now).tracks[2].isSolo
    /\ toggleTrackSolo(Cur, 2, now).sources = sources

\* C26 (as claimed): in every reachable state each key of the registry is the id
\* of a track of the timeline; removeTrack and clearAll leave no registry entry
\* of a deleted track, and after removeTrack(id) no source of that track is
\* sounding.
C26_RegistryOfTimelineTracks ==
    /\ DOMAIN activeSources \subseteq TrackIds(tracks)
    /\ DOMAIN clearAll(Cur).activeSources = {}
    /\ \A id \in TrackIds(tracks) :
         LET f == removeTrack(Cur, id)
         IN /\ DOMAIN f.activeSources \subseteq TrackIds(f.tracks)
            /\ id \notin TrackIds(f.tracks)
            /\ LiveOfIn(f, id) = {}

\* The part of C26 that is about the registry alone.
C26_RegistryKeys ==
    /\ DOMAIN activeSources \subseteq TrackIds(tracks)
    /\ DOMAIN clearAll(Cur).activeSources = {}
    /\ \A id \in TrackIds(tracks) :
         LET f == removeTrack(Cur, id)
         IN /\ DOMAIN f.activeSources \subseteq TrackIds(f.tracks)
            /\ id \notin TrackIds(f.tracks)
            /\ \A x \in DOMAIN sources :
                 (id \in DOMAIN activeSources /\ activeSources[id] = x)
                     => x \notin DOMAIN f.sources

\* C27: if decoding of an imported file fails, addTrack reports the failure to
\* its caller and the timeline is unchanged: no track is added and the track
\* list, duration, position, playing flag and registry are as before the import.
C27_FailedImport ==
    LET r == addTrackAwaited(Cur, nextId, loadAudioFile(FALSE, 0))
    IN /\ r.rejected
       /\ r.service.tracks = tracks
       /\ r.service.duration = duration
       /\ r.service.currentTime = currentTime
       /\ r.service.isPlaying = isPlaying
       /\ r.service.activeSources = activeSources
       /\ r.service = Cur

\* C27 witness: an import has just been rejected on a timeline that holds a
\* track and whose playhead was moved.
C27_Witness ==
    /\ importRejected
    /\ Len(tracks) = 1
    /\ currentTime > 0
    /\ duration > MinDuration

\* C28 (as claimed): if the backend rejects the start of one track during a
\* reconciliation pass, the other tracks selected in that pass are still started
\* and registered, the calling play() or tick completes normally (playing with
\* the interval subscribed), and the rejected track has no registry entry.
C28_RejectedStartIsolated ==
    /\ ~isPlaying =>
         \A bad \in TrackIds(tracks) :
             LET ok == play(Cur, now)
                 r == playRejecting(Cur, now, bad)
             IN bad \in DOMAIN ok.activeSources \ DOMAIN activeSources
                  => /\ ~r.thrown
                     /\ r.service.isPlaying /\ r.service.subscribed
                     /\ bad \notin DOMAIN r.service.activeSources
                     /\ DOMAIN ok.activeSources \ {bad} \subseteq DOMAIN r.service.activeSources
    /\ (subscribed /\ now >= tickDue) =>
         \A bad \in TrackIds(tracks), keeps \in BOOLEAN :
             LET ok == tick(Cur, now)
                 r == tickRejecting(Cur, now, bad, keeps)
             IN bad \in DOMAIN ok.activeSources \ DOMAIN activeSources
                  => /\ ~r.thrown
                     /\ r.service.isPlaying /\ r.service.subscribed
                     /\ bad \notin DOMAIN r.service.activeSources
                     /\ DOMAIN ok.activeSources \ {bad} \subseteq DOMAIN r.service.activeSources

\* C29: when the backend raises on stop, stopTrack and stopAll do not propagate
\* the error and still remove the registry entry, and stopAll still stops every
\* other registered source; the source whose stop raised is left as it was.
C29_StopRaisingBenign ==
    /\ \A raising \in SUBSET Registered :
         LET r == stopAllRaising(Cur, raising)
         IN /\ ~r.thrown
            /\ DOMAIN r.service.activeSources = {}
            /\ \A x \in Registered \ raising : x \notin DOMAIN r.service.sources
            /\ \A id \in Ids :
                 r.service.endedPending[id] = endedPending[id]
                    + Cardinality({x \in Registered \ raising : sources[x].track = id})
            /\ \A x \in DOMAIN sources \ (Registered \ raising) :
                 x \in DOMAIN r.service.sources /\ r.service.sources[x] = sources[x]
    /\ \A id \in Ids, raising \in SUBSET Registered :
         LET r == stopTrackRaising(Cur, id, raising)
         IN /\ ~r.thrown
            /\ DOMAIN r.service.activeSources = DOMAIN activeSources \ {id}
            /\ \A i \in DOMAIN activeSources \ {id} :
                 r.service.activeSources[i] = activeSources[i]
            /\ \A x \in DOMAIN sources :
                 x \in DOMAIN r.service.sources
                    <=> ~(id \in DOMAIN activeSources /\ activeSources[id] = x
                          /\ x \notin raising)

\* C29 witness: stopAll has run with the stop of both registered sources
\* raising: the registry is empty, both sources are as they were and no 'ended'
\* event is queued.
C29_Witness ==
    /\ DOMAIN activeSources = {}
    /\ Cardinality(DOMAIN sources) = 2
    /\ \E x, y \in DOMAIN sources : sources[x].track = 1 /\ sources[y].track = 2
    /\ \A id \in Ids : endedPending[id] = 0

\* C30 (as claimed): setting the samples of a track a second time fails: after
\* the first setAudioBuffer a further call leaves the track's audioBuffer and
\* duration at their first values.
C30_SecondSetAudioBufferRejected ==
    \A i \in DOMAIN tracks :
        tracks[i].audioBuffer =>
            \A d \in PassDurations \cup EditDurations :
                setAudioBuffer(tracks[i], d) = tracks[i]

\* C31: whenever an operation of the service or a tick has returned, what was
\* published last equals the current timeline: tracks with their positions and
\* mute/solo flags, position, duration, playing flag.
C31_PublishedIsCurrent ==
    published = Snapshot(Cur)

\* C31 witness: during playback of two tracks, one dragged to the start of the
\* timeline and muted, a tick has moved the position and published it.
C31_Witness ==
    /\ isPlaying /\ currentTime > 0
    /\ Len(tracks) = 2
    /\ tracks[2].startTime = 0 /\ tracks[2].isMuted
    /\ published.isPlaying
    /\ published.currentTime = currentTime
    /\ published.tracks = tracks

\* C32: with several imports in flight, in whatever order their decodes
\* complete, each successful import appends exactly one track, its own, at the
\* end of the list, leaves the tracks that are there and the other imports as
\* they are, and the duration is recomputed from the new list.
C32_ImportsAppend ==
    [][\A id \in inFlight :
          (id \notin inFlight' /\ ~importRejected')
              => /\ Len(tracks') = Len(tracks) + 1
                 /\ \A i \in DOMAIN tracks : tracks'[i] = tracks[i] /\ tracks[i].id # id
                 /\ tracks'[Len(tracks')].id = id
                 /\ tracks'[Len(tracks')].audioBuffer
                 /\ duration' = Max(MaxEnd', MinDuration)
                 /\ inFlight' = inFlight \ {id}]_vars

\* C32 witness: three imports were in flight together and completed in the
\* reverse of the order of their calls.
C32_Witness ==
    /\ inFlight = {}
    /\ Len(tracks) = 3
    /\ tracks[1].id = 3 /\ tracks[2].id = 2 /\ tracks[3].id = 1

\* C33: a track whose import completes is placed at 0 when the timeline is
\* empty and otherwise at the endTime of the track that is last in the list at
\* that moment, and it becomes the last track.
C33_DefaultPlacement ==
    \A id \in inFlight, d \in ImportDurations :
        LET f == addTrack(Cur, id, d)
            t == f.tracks[Len(f.tracks)]
        IN /\ t.id = id
           /\ t.duration = d
           /\ t.startTime = IF tracks = << >> THEN 0
                            ELSE tracks[Len(tracks)].startTime
                                   + tracks[Len(tracks)].duration

\* C33 witness: the second track of the list was dragged to 0 and the first one
\* ends later; the import that completed then was placed at the end of the
\* second, which was last in the list.
C33_Witness ==
    /\ Len(tracks) = 3
    /\ tracks[1].startTime = 100000
    /\ tracks[2].startTime = 0
    /\ tracks[3].startTime = tracks[2].duration

\* C34: a track whose audioBuffer is null is never started: no source exists for
\* it and it has no registry entry, and neither playTrack nor a pass of
\* playTracks changes that, whatever its offset and its mute and solo flags are.
C34_NullBufferNeverStarted ==
    \A i \in DOMAIN tracks :
        ~tracks[i].audioBuffer =>
            /\ tracks[i].id \notin DOMAIN activeSources
            /\ \A x \in DOMAIN sources : sources[x].track # tracks[i].id
            /\ \A t \in PassPositions :
                 /\ \A ctx \in {{}, {now + LookAheadMs}} :
                      playTrack(Cur, tracks[i], t, ctx, now) = Cur
                 /\ \A flag \in BOOLEAN :
                      LET f == playTracks(Cur, t, flag, now)
                      IN /\ tracks[i].id \notin DOMAIN f.activeSources
                         /\ \A x \in DOMAIN f.sources : f.sources[x].track # tracks[i].id

\* C34 witness: the caller's array holds an undecoded first track, unmuted and
\* at 0, and a decoded second one; start calls ran (playTrack among them, the
\* second track having two sources) and the first track has none.
C34_Witness ==
    /\ Len(tracks) = 2
    /\ ~tracks[1].audioBuffer /\ ~tracks[1].isMuted /\ tracks[1].startTime = 0
    /\ 2 \in DOMAIN activeSources
    /\ Cardinality(DOMAIN sources) = 2
    /\ \A x \in DOMAIN sources : sources[x].track = 2

\* C35: every reconciliation pass stops what is no longer wanted: after a
\* periodic tick, every track that has a registry entry is wanted at the new
\* position (decoded, audible, its interval containing the position).
C35_PassStopsUnwanted ==
    (subscribed /\ now >= tickDue) =>
        LET f == tick(Cur, now)
        IN DOMAIN f.activeSources \subseteq WantedIn(f, f.currentTime)

\* C36: the 'ended' notification of an earlier, already stopped source leaves
\* the registry as it is: the entry of the track, which by then refers to a
\* newer source, is not removed by it.
C36_EndedRemovesOwnEntry ==
    [][\A id \in Ids :
          endedPending'[id] < endedPending[id] => activeSources' = activeSources]_vars

\* C37: exactly one periodic tick subscription is live while the timeline is
\* playing and none while it is not; play() called while playing is a no-op: no
\* second timer, the clock anchor kept, no source started.
C37_OneTimerIffPlaying ==
    /\ timers = (IF isPlaying THEN 1 ELSE 0)
    /\ subscribed <=> isPlaying
    /\ isPlaying =>
          LET f == play(Cur, now)
          IN /\ f.timers = timers
             /\ f.playbackStartTime = playbackStartTime
             /\ f.tickDue = tickDue
             /\ f.sources = sources
             /\ f.activeSources = activeSources

\* C37 witness: the timeline plays some time after its anchor, a tick has moved
\* the position, and the one timer is live; play() may be called here.
C37_Witness ==
    /\ isPlaying
    /\ timers = 1
    /\ currentTime > 0
    /\ now > playbackStartTime + currentTime
    /\ Len(tracks) > 0

\* C38: whenever the timeline is not playing, the registry of sounding sources
\* (activeSources) is empty.
C38_RegistryEmptyAtRest ==
    ~isPlaying => DOMAIN activeSources = {}

\* C38 witness: the timeline was paused in mid-play with two tracks: it is at
\* rest at a position after 0 and the 'ended' event of a source that pause()
\* stopped is still to come.
C38_Witness ==
    /\ ~isPlaying
    /\ currentTime > 0
    /\ Len(tracks) = 2
    /\ \E id \in Ids : endedPending[id] > 0

\* C39: toggleTrackMute during playback takes effect when it returns, before any
\* tick: a track it has muted has no registry entry, and a decoded track it has
\* unmuted that is audible and active at the position of the timeline
\* (currentTime) has an entry, which refers to a started source of that track.
C39_MuteToggleImmediate ==
    isPlaying =>
        \A id \in TrackIds(tracks) :
            LET f == toggleTrackMute(Cur, id, now)
                tr == getTrack(f.tracks, id)
            IN /\ tr.isMuted = ~getTrack(tracks, id).isMuted
               /\ tr.isMuted => id \notin DOMAIN f.activeSources
               /\ (~tr.isMuted /\ id \in WantedIn(f, f.currentTime)) =>
                     /\ id \in DOMAIN f.activeSources
                     /\ f.activeSources[id] \in DOMAIN f.sources
                     /\ f.sources[f.activeSources[id]].track = id

\* C39 witness: during playback a track is registered with a source that was
\* scheduled later than a tick or play() would have scheduled it (it was started by
\* an unmute between two ticks), and another track is at rest, muted, with no entry.
C39_Witness ==
    /\ isPlaying
    /\ \E id \in DOMAIN activeSources :
         LET n == sources[activeSources[id]]
             tr == getTrack(tracks, id)
         IN /\ ~tr.isMuted
            /\ n.track = id
            /\ n.startAt - LookAheadMs > playbackStartTime + tr.startTime + n.bufferOffset
    /\ \E i \in DOMAIN tracks :
         tracks[i].isMuted /\ tracks[i].id \notin DOMAIN activeSources

====
